---- MODULE Spec2Model ----
(***************************************************************************)
(* OrganizationService (src/src/organization/organization.service.ts):     *)
(* organizations, memberships, role labels and the invitation handshake    *)
(* over a relational store (Prisma), a key-value store with expiry (Redis) *)
(* and a mail transport.  Every public method is an async function: each   *)
(* await is one atomic step of a caller, and callers interleave between    *)
(* their awaits.                                                           *)
(***************************************************************************)
EXTENDS Integers, Sequences, FiniteSets, TLC

(* ------------------------------ bounds -------------------------------- *)
NumProcs == 2
MaxOrgs == 1
MaxInvites == 2
MaxRoles == 3

Procs == 1..NumProcs
OrgIDs == 1..MaxOrgs
Emails == {"b@x", "c@x"}
UserIDs == 1..3
AdminIDs == {1, 3}
Names == {"Ann"}
Passwords == {"pw"}
OrgNames == {"Acme"}
HexSuffixes == {"0a1b2c3d4e5f"}
RoleLists == {<<"dev">>}
RoleNames == {"dev", "ops"}

(* A value that may be absent (null / undefined): <<>> or <<x>>.           *)
None == <<>>
Some(x) == <<x>>
IsNone(o) == o = <<>>
IsSome(o) == o # <<>>
The(o) == o[1]

(* --------------------------- invitation code --------------------------- *)
Digits == {"0", "1", "2", "3", "4", "5", "6", "7", "8", "9"}
UpperCaseAlphabets ==
    {"A", "B", "C", "D", "E", "F", "G", "H", "I", "J", "K", "L", "M",
     "N", "O", "P", "Q", "R", "S", "T", "U", "V", "W", "X", "Y", "Z"}
LowerCaseAlphabets ==
    {"a", "b", "c", "d", "e", "f", "g", "h", "i", "j", "k", "l", "m",
     "n", "o", "p", "q", "r", "s", "t", "u", "v", "w", "x", "y", "z"}
SpecialChars == {"#", "!", "&", "@"}

(* Strings the generator is tried against: a code is a sequence of         *)
(* one-character strings.  CodeSample is the part of WideCodeSample the    *)
(* full specification draws from.                                          *)
CodeSample ==
    { <<"K", "0", "7", "Q", "9", "3">>,
      <<"k", "0", "7", "1", "9", "3">>,
      <<"4", "0", "#", "1", "9", "3">>,
      <<"4", "0", "7", "1", "9">>,
      <<"4", "0", "7", "1", "9", "3", "3">> }

WideCodeSample ==
    CodeSample \cup
    { <<"4", "0", "7", "1", "9", "3">>,
      <<"0", "0", "0", "0", "0", "0">>,
      <<"Z", "Z", "Z", "Z", "Z", "Z">>,
      <<"A", "b", "1", "2", "3", "4">>,
      <<"1", "2", "3", "4", "5", "!">>,
      <<"Q">>,
      <<>> }

OtpLength == 6

OtpOptionsLowerCase ==
    [lowerCaseAlphabets |-> TRUE, specialChars |-> FALSE,
     digits |-> TRUE, upperCaseAlphabets |-> TRUE]

(* The options object of the otp.generate call.                            *)
OtpOptions ==
    [lowerCaseAlphabets |-> FALSE, specialChars |-> FALSE,
     digits |-> TRUE, upperCaseAlphabets |-> TRUE]

(* otp-generator: the characters a code is drawn from under the options.   *)
AllowedChars(opt) ==
    (IF opt.digits THEN Digits ELSE {})
    \cup (IF opt.lowerCaseAlphabets THEN LowerCaseAlphabets ELSE {})
    \cup (IF opt.upperCaseAlphabets THEN UpperCaseAlphabets ELSE {})
    \cup (IF opt.specialChars THEN SpecialChars ELSE {})

(* otp.generate(length, opt): any string of `length` allowed characters.   *)
Generate(length, opt) ==
    {c \in WideCodeSample :
        Len(c) = length /\ \A i \in 1..Len(c) : c[i] \in AllowedChars(opt)}

(* The codes a caller of acceptInvitation may present: the generated ones  *)
(* and one that is never issued.                                           *)
CodeInputs ==
    (CodeSample \cap Generate(OtpLength, OtpOptions))
    \cup {<<"k", "0", "7", "1", "9", "3">>}

PasswordInputs == {None} \cup {Some(pw) : pw \in Passwords}

(* Wider inputs for the invitation handshake taken alone: two codes the    *)
(* generator can produce, two names, two role lists.                       *)
CodePair == { <<"K", "0", "7", "Q", "9", "3">>, <<"4", "0", "7", "1", "9", "3">> }
NamePair == {"Ann", "Bob"}
RoleListPair == { <<"dev">>, <<"ops", "dev">> }

(* ------------------------------- state --------------------------------- *)
VARIABLES
    users,        \* User rows
    orgs,         \* Organization rows
    members,      \* OrganizationUser rows (memberships), each with its roles
    nextOrgID,    \* next Organization id the store hands out
    kv,           \* the key-value store: key -> absent or the stored string
    proc,         \* each caller: position in its call, arguments, locals
    stored,       \* history: number of invitations stored so far
    trail,        \* history: what last happened to each invitation key
    solo,         \* history: an invite/accept sequence nothing interleaved
    last          \* history: the outcome of the call that has just returned

vars == <<users, orgs, members, nextOrgID, kv, proc, stored, trail, solo, last>>

InviteKey(organizationID, email) == <<organizationID, email>>
Keys == OrgIDs \X Emails

(* ------------------------- store: lookups ------------------------------ *)
(* user.findUnique({ where: { email } })                                    *)
FindUserByEmail(email) ==
    IF \E u \in users : u.email = email
    THEN Some(CHOOSE u \in users : u.email = email)
    ELSE None

(* organization.findUnique({ where: { id } })                               *)
FindOrganization(organizationID) ==
    IF \E o \in orgs : o.id = organizationID
    THEN Some(CHOOSE o \in orgs : o.id = organizationID)
    ELSE None

(* The rows organizationUser.findFirst({ where: { userID, organizationID }})*)
(* may return: any one of the matching rows.                               *)
MatchingMembers(userID, organizationID) ==
    {m \in members : m.userID = userID /\ m.organizationID = organizationID}

(* organizationUser.findMany({ where: { isAdmin: true, organizationID } })  *)
FindAdmins(organizationID) ==
    {m \in members : m.isAdmin /\ m.organizationID = organizationID}

MemberIDs == {m.id : m \in members}

(* The id the store gives a new OrganizationUser row: one that no row has  *)
(* and no caller still holds from an earlier read.                         *)
HeldMemberIDs == {The(proc[q].row).id : q \in {r \in Procs : IsSome(proc[r].row)}}
FreshMemberID ==
    CHOOSE n \in 1..(Cardinality(MemberIDs \cup HeldMemberIDs) + 1) :
        /\ n \notin MemberIDs \cup HeldMemberIDs
        /\ \A m \in 1..(n - 1) : m \in MemberIDs \cup HeldMemberIDs

(* bcrypt.hash(password, 10)                                                *)
Hash(password) == <<"bcrypt", password>>

(* JSON.stringify of the invitation object; JSON.parse(null) is null.      *)
JSONstringify(obj) == [json |-> obj]
JSONparse(data) == IF IsNone(data) THEN None ELSE Some(The(data).json)

(* client.get(key): the stored string, or null when the key is absent or   *)
(* has expired.                                                            *)
KvGet(k) == kv[k]

KvSetIfAbsent(k, v) == IF IsSome(kv[k]) THEN kv ELSE [kv EXCEPT ![k] = Some(v)]

(* client.set(key, value, { EX }): the value replaces what the key held.   *)
KvSet(k, v) == [kv EXCEPT ![k] = Some(v)]

KvDelNothing(k) == kv

(* client.del(key)                                                          *)
KvDel(k) == [kv EXCEPT ![k] = None]

(* History: what last happened to a key, the code, name and roles of the   *)
(* inviteUser call that last stored under it, and the different code of    *)
(* the pending invitation that the store replaced, if any.                 *)
NoTrail == [st |-> "none", code |-> <<>>, prev |-> <<>>, name |-> "", roles |-> <<>>]

(* ------------------------------ callers -------------------------------- *)
(* History: what an acceptInvitation found at its get: what had last       *)
(* happened to the key, whether the code presented is the one last stored  *)
(* (match) or the one that store replaced (old), and, for a pending        *)
(* invitation, the arguments of the inviteUser call that stored it.        *)
NoSeen ==
    [st |-> "none", match |-> FALSE, old |-> FALSE, repl |-> FALSE,
     name |-> "", roles |-> <<>>]

(* History: the membership and the user an acceptInvitation created.       *)
NoMade == [email |-> "", isAdmin |-> FALSE, roles |-> <<>>, name |-> ""]

Idle ==
    [pc |-> "idle", op |-> "none", email |-> "", org |-> 0, code |-> <<>>,
     pw |-> None, name |-> "", roles |-> <<>>, uid |-> 0,
     user |-> None, newUser |-> FALSE, invite |-> None, age |-> 0, beaten |-> FALSE,
     row |-> None, admins |-> -1, eff |-> {}, pre |-> "", seen |-> NoSeen,
     made |-> NoMade, mailed |-> <<>>, roleName |-> ""]

Free(p) == proc[p].pc = "idle"

(* The outcome of a call as its caller gets it (returned or thrown), with  *)
(* what the call did to the stores and what it found when it checked.      *)
NoLast ==
    [op |-> "none", pc |-> "none", err |-> "", eff |-> {}, pre |-> "",
     seen |-> NoSeen, admins |-> -1, rowid |-> 0, again |-> FALSE,
     email |-> "", made |-> NoMade, org |-> 0, result |-> {}, removed |-> 0]

Outcome(call, pc, msg, eff) ==
    [NoLast EXCEPT !.op = call.op, !.pc = pc, !.err = msg,
                   !.eff = call.eff \cup eff, !.pre = call.pre, !.seen = call.seen,
                   !.admins = call.admins, !.made = call.made,
                   !.email = IF call.op = "acceptInvitation" THEN call.email ELSE "",
                   !.rowid = IF IsSome(call.row) THEN The(call.row).id ELSE 0]

Throw(call, msg) == Outcome(call, "failed", msg, {})
Return(call, eff) == Outcome(call, "done", "", eff)

NoSolo == [st |-> "none", p |-> 0, k |-> <<0, "">>, code |-> <<>>, pw |-> None]

(* The step of caller p belongs to the uninterrupted sequence in stage st. *)
InSolo(p, st) == solo.st = st /\ solo.p = p
KeepSolo(p, st) == IF InSolo(p, st) THEN solo ELSE NoSolo
Accepting(p) == solo.p = p /\ solo.st \in {"accepting", "retrying"}
KeepAccepting(p) == IF Accepting(p) THEN solo ELSE NoSolo

(* --------------------------- seeded database --------------------------- *)
(* The service is constructed over an existing database: users sign up    *)
(* elsewhere, and an organization may have been given a second admin.      *)
SeedUsers ==
    { [id |-> 1, email |-> "a@x", password |-> Hash("pw"), firstname |-> "Ann"],
      [id |-> 2, email |-> "b@x", password |-> Hash("pw"), firstname |-> "Ann"] }

SeedOrgs ==
    { [id |-> 1, name |-> "Acme", identifier |-> <<"Acme", "-", "0a1b2c3d4e5f">>] }

SeedMembers ==
    { [id |-> 1, userID |-> 1, organizationID |-> 1, isAdmin |-> TRUE, roles |-> <<>>],
      [id |-> 2, userID |-> 2, organizationID |-> 1, isAdmin |-> TRUE, roles |-> <<>>] }

Init ==
    /\ users = SeedUsers
    /\ \/ orgs = {} /\ members = {} /\ nextOrgID = 1
       \/ orgs = SeedOrgs /\ members = SeedMembers /\ nextOrgID = 2
    /\ kv = [k \in Keys |-> None]
    /\ proc = [p \in Procs |-> Idle]
    /\ stored = 0
    /\ trail = [k \in Keys |-> NoTrail]
    /\ solo = NoSolo
    /\ last = NoLast

(* ------------------------------ inviteUser ----------------------------- *)
InvitesInFlight ==
    Cardinality({q \in Procs : proc[q].op = "inviteUser"})

(* line 53: the call starts and looks the user up by email.                *)
InviteStart(p, email, name, organizationID, roles) ==
    /\ Free(p)
    /\ stored + InvitesInFlight < MaxInvites
    /\ proc' = [proc EXCEPT ![p] =
                  [Idle EXCEPT !.pc = "inv_findOrg", !.op = "inviteUser",
                               !.email = email, !.name = name,
                               !.org = organizationID, !.roles = roles,
                               !.user = FindUserByEmail(email)]]
    /\ solo' = [NoSolo EXCEPT !.st = "inviting", !.p = p]
    /\ last' = NoLast
    /\ UNCHANGED <<users, orgs, members, nextOrgID, kv, stored, trail>>

IsNewUserNever(user) == FALSE

(* lines 58, 67-69: newUser is true exactly when no user was found.        *)
IsNewUser(user) == IsNone(user)

(* lines 54-69 up to the next await: the organization must exist.          *)
InviteFindOrg(p) ==
    /\ proc[p].pc = "inv_findOrg"
    /\ LET organization == FindOrganization(proc[p].org)
           call == [proc[p] EXCEPT !.pre = IF \E o \in orgs : o.id = proc[p].org
                                           THEN "" ELSE "no organization"]
       IN
       IF IsNone(organization)
       THEN /\ proc' = [proc EXCEPT ![p] = Idle]
            /\ last' = Throw(call, "no organization exists")
            /\ solo' = NoSolo
       ELSE /\ proc' = [proc EXCEPT ![p] =
                          IF IsSome(proc[p].user)
                          THEN [call EXCEPT !.pc = "inv_findMember"]
                          ELSE [call EXCEPT !.pc = "inv_send",
                                            !.newUser = IsNewUser(proc[p].user)]]
            /\ last' = NoLast
            /\ solo' = KeepSolo(p, "inviting")
    /\ UNCHANGED <<users, orgs, members, nextOrgID, kv, stored, trail>>

AlreadyMemberNever(orgUser) == FALSE

(* line 62: the lookup found a membership.                                 *)
AlreadyMember(orgUser) == orgUser # {}

(* lines 61-65: a user who is already a member is not invited.             *)
InviteFindMember(p) ==
    /\ proc[p].pc = "inv_findMember"
    /\ LET orgUser == MatchingMembers(The(proc[p].user).id, proc[p].org)
           call == [proc[p] EXCEPT !.pre =
                      IF \E m \in members : /\ m.userID = The(proc[p].user).id
                                            /\ m.organizationID = proc[p].org
                      THEN "member" ELSE ""]
       IN
       IF AlreadyMember(orgUser)
       THEN /\ proc' = [proc EXCEPT ![p] = Idle]
            /\ last' = Throw(call, "already part of organization")
            /\ solo' = NoSolo
       ELSE /\ proc' = [proc EXCEPT ![p] = [call EXCEPT !.pc = "inv_send", !.user = None]]
            /\ last' = NoLast
            /\ solo' = KeepSolo(p, "inviting")
    /\ UNCHANGED <<users, orgs, members, nextOrgID, kv, stored, trail>>

(* line 75: the code as the link in the email body carries it.             *)
EmailedCode(code) == code

(* lines 71-78: the code is generated and the email is sent.               *)
InviteSend(p, code) ==
    /\ proc[p].pc = "inv_send"
    /\ code \in Generate(OtpLength, OtpOptions)
    /\ proc' = [proc EXCEPT ![p].pc = "inv_set", ![p].code = code,
                            ![p].mailed = EmailedCode(code),
                            ![p].eff = @ \cup {"email"}]
    /\ last' = NoLast
    /\ solo' = KeepSolo(p, "inviting")
    /\ UNCHANGED <<users, orgs, members, nextOrgID, kv, stored, trail>>

InviteSendFailsStored(p) ==
    /\ proc[p].pc = "inv_send"
    /\ proc' = [proc EXCEPT ![p] = Idle]
    /\ last' = Throw(proc[p], "mailer error")
    /\ solo' = NoSolo
    /\ kv' = KvSet(InviteKey(proc[p].org, proc[p].email),
                   JSONstringify([code |-> proc[p].code, name |-> proc[p].name,
                                  newuser |-> proc[p].newUser,
                                  roles |-> proc[p].roles]))
    /\ UNCHANGED <<users, orgs, members, nextOrgID, stored, trail>>

(* line 72: the transport fails and the error propagates.                  *)
InviteSendFails(p) ==
    /\ proc[p].pc = "inv_send"
    /\ proc' = [proc EXCEPT ![p] = Idle]
    /\ last' = Throw(proc[p], "mailer error")
    /\ solo' = NoSolo
    /\ UNCHANGED <<users, orgs, members, nextOrgID, kv, stored, trail>>

(* History: caller q is accepting an invitation it read under key k; age  *)
(* counts the invitations stored under k since, so two callers hold the    *)
(* same invitation exactly when key and age agree.                         *)
HoldsCopy(q, k) ==
    proc[q].op = "acceptInvitation" /\ InviteKey(proc[q].org, proc[q].email) = k

InvitePayloadNoRoles(p) ==
    JSONstringify([code |-> proc[p].code, name |-> proc[p].name,
                   newuser |-> proc[p].newUser, roles |-> <<>>])

(* The value written under the key.                                        *)
InvitePayload(p) ==
    JSONstringify([code |-> proc[p].code, name |-> proc[p].name,
                   newuser |-> proc[p].newUser, roles |-> proc[p].roles])

(* lines 79-80: the invitation is stored under its key, replacing any      *)
(* earlier one, and the call returns true.                                 *)
InviteSet(p) ==
    /\ proc[p].pc = "inv_set"
    /\ LET k == InviteKey(proc[p].org, proc[p].email) IN
       /\ kv' = KvSet(k, InvitePayload(p))
       /\ trail' = [trail EXCEPT ![k] =
                      [st |-> "pending", code |-> proc[p].code,
                       prev |-> IF trail[k].st = "pending" /\ trail[k].code # proc[p].code
                                THEN trail[k].code ELSE <<>>,
                       name |-> proc[p].name, roles |-> proc[p].roles]]
       /\ solo' = IF InSolo(p, "inviting")
                  THEN [NoSolo EXCEPT !.st = "invited", !.p = p, !.k = k,
                                      !.code = proc[p].code]
                  ELSE NoSolo
       /\ proc' = [q \in Procs |->
                     IF q = p THEN Idle
                     ELSE IF HoldsCopy(q, k) THEN [proc[q] EXCEPT !.age = @ + 1]
                     ELSE proc[q]]
    /\ last' = Return(proc[p], {"kvset"})
    /\ stored' = stored + 1
    /\ UNCHANGED <<users, orgs, members, nextOrgID>>

(* --------------------------- acceptInvitation -------------------------- *)
VerifiedAnyCode(invite, code) ==
    ~(IsNone(invite) \/ The(invite).code = <<>>)

VerifiedUnlessAbsent(invite, code) ==
    IsNone(invite) \/ ~(The(invite).code = <<>> \/ The(invite).code # code)

(* line 89, negated: the invitation parsed, carries a code, and the code   *)
(* is the one presented.                                                   *)
Verified(invite, code) ==
    ~(IsNone(invite) \/ The(invite).code = <<>> \/ The(invite).code # code)

(* The relational store's referential integrity: an OrganizationUser row  *)
(* must reference an existing User and an existing Organization.           *)
ForeignKeysHold(userID, organizationID) ==
    /\ \E u \in users : u.id = userID
    /\ \E o \in orgs : o.id = organizationID

(* The store's unique constraint on User.email.                            *)
EmailTaken(email) == \E u \in users : u.email = email

NewMember(userID, organizationID, isAdmin, roles) ==
    [id |-> FreshMemberID, userID |-> userID, organizationID |-> organizationID,
     isAdmin |-> isAdmin, roles |-> roles]

(* lines 85-91: the call starts, reads the invitation and verifies the     *)
(* code; lines 93-99 choose the branch.                                    *)
AcceptGet(p, email, organizationID, code, password) ==
    /\ Free(p)
    /\ LET k == InviteKey(organizationID, email)
           inviteData == KvGet(k)
           invite == JSONparse(inviteData)
           call == [Idle EXCEPT !.op = "acceptInvitation", !.email = email,
                                !.org = organizationID, !.invite = invite,
                                !.seen =
                                    [st |-> trail[k].st,
                                     match |-> trail[k].code = code,
                                     old |-> trail[k].prev = code,
                                     repl |-> trail[k].prev # <<>>,
                                     name |-> IF trail[k].st = "pending"
                                              THEN trail[k].name ELSE "",
                                     roles |-> IF trail[k].st = "pending"
                                               THEN trail[k].roles ELSE <<>>]]
       IN
       IF ~Verified(invite, code)
       THEN /\ proc' = [proc EXCEPT ![p] = Idle]
            /\ last' = Throw(call, "unable to verify code")
            /\ solo' = IF solo.st = "accepted" /\ solo.k = k /\ solo.code = code
                       THEN [solo EXCEPT !.st = "replayed", !.p = p]
                       ELSE NoSolo
       ELSE IF IsNone(invite)
       THEN \* line 95 reads invite.newuser: of null, it throws
            /\ proc' = [proc EXCEPT ![p] = Idle]
            /\ last' = Throw(call, "TypeError")
            /\ solo' = NoSolo
       ELSE /\ proc' = [proc EXCEPT ![p] =
                          IF The(invite).newuser
                          THEN [call EXCEPT !.pc = "acc_createUser", !.pw = password]
                          ELSE [call EXCEPT !.pc = "acc_findUser"]]
            /\ last' = NoLast
            /\ solo' = IF /\ solo.st = "invited" /\ solo.k = k /\ solo.code = code
                          /\ (The(invite).newuser => IsSome(password))
                       THEN [solo EXCEPT !.st = "accepting", !.p = p,
                                         !.pw = IF The(invite).newuser
                                                THEN password ELSE None]
                       ELSE IF /\ solo.st = "transient" /\ solo.k = k
                               /\ solo.code = code
                               /\ (The(invite).newuser => password = solo.pw)
                       THEN [solo EXCEPT !.st = "retrying", !.p = p]
                       ELSE NoSolo
    /\ UNCHANGED <<users, orgs, members, nextOrgID, kv, stored, trail>>

(* line 96: the existing user is looked up by email.                       *)
AcceptFindUser(p) ==
    /\ proc[p].pc = "acc_findUser"
    /\ proc' = [proc EXCEPT ![p].pc = "acc_createMember",
                            ![p].user = FindUserByEmail(proc[p].email)]
    /\ last' = NoLast
    /\ solo' = KeepAccepting(p)
    /\ UNCHANGED <<users, orgs, members, nextOrgID, kv, stored, trail>>

(* lines 101-115: the password is hashed and the new user is created.      *)
(* bcrypt rejects a null password; the store rejects a taken email.        *)
AcceptCreateUser(p) ==
    /\ proc[p].pc = "acc_createUser"
    /\ IF IsNone(proc[p].pw)
       THEN /\ proc' = [proc EXCEPT ![p] = Idle]
            /\ last' = Throw(proc[p], "bcrypt error")
            /\ UNCHANGED users
       ELSE IF EmailTaken(proc[p].email)
       THEN /\ proc' = [proc EXCEPT ![p] = Idle]
            /\ last' = Throw(proc[p], "unique constraint failed")
            /\ UNCHANGED users
       ELSE LET user == [id |-> Cardinality(users) + 1, email |-> proc[p].email,
                         password |-> Hash(The(proc[p].pw)),
                         firstname |-> The(proc[p].invite).name]
            IN /\ users' = users \cup {user}
               /\ proc' = [proc EXCEPT ![p].pc = "acc_createMember",
                                       ![p].user = Some(user), ![p].pw = None,
                                       ![p].made.name = user.firstname,
                                       ![p].eff = @ \cup {"user"}]
               /\ last' = NoLast
    /\ solo' = KeepAccepting(p)
    /\ UNCHANGED <<orgs, members, nextOrgID, kv, stored, trail>>

(* lines 118-129: the membership is created with the invitation's roles.   *)
(* Reading user.id of a null user throws; the store rejects a reference    *)
(* to a missing organization.                                              *)
AcceptCreateMember(p) ==
    /\ proc[p].pc = "acc_createMember"
    /\ IF IsNone(proc[p].user)
       THEN /\ proc' = [proc EXCEPT ![p] = Idle]
            /\ last' = Throw(proc[p], "TypeError")
            /\ UNCHANGED members
       ELSE IF ~ForeignKeysHold(The(proc[p].user).id, proc[p].org)
       THEN /\ proc' = [proc EXCEPT ![p] = Idle]
            /\ last' = Throw(proc[p], "foreign key constraint failed")
            /\ UNCHANGED members
       ELSE LET row == NewMember(The(proc[p].user).id, proc[p].org, FALSE,
                                 The(proc[p].invite).roles)
            IN /\ members' = members \cup {row}
               /\ proc' = [proc EXCEPT
                     ![p].pc = "acc_del", ![p].user = None,
                     ![p].made = [@ EXCEPT
                        !.email = (CHOOSE u \in users : u.id = row.userID).email,
                        !.isAdmin = row.isAdmin, !.roles = row.roles],
                     ![p].eff = @ \cup {"member"}]
               /\ last' = NoLast
    /\ solo' = KeepAccepting(p)
    /\ UNCHANGED <<users, orgs, nextOrgID, kv, stored, trail>>

AcceptCreateMemberFailsDel(p) ==
    /\ proc[p].pc = "acc_createMember"
    /\ proc' = [proc EXCEPT ![p] = Idle]
    /\ last' = Throw(proc[p], "store error")
    /\ solo' = NoSolo
    /\ kv' = KvDel(InviteKey(proc[p].org, proc[p].email))
    /\ UNCHANGED <<users, orgs, members, nextOrgID, stored, trail>>

(* line 118: the store call fails for a reason of its own (connection      *)
(* lost, timeout) and the error propagates.                                *)
AcceptCreateMemberFails(p) ==
    /\ proc[p].pc = "acc_createMember"
    /\ proc' = [proc EXCEPT ![p] = Idle]
    /\ last' = Throw(proc[p], "store error")
    /\ solo' = IF InSolo(p, "accepting") THEN [solo EXCEPT !.st = "transient"] ELSE NoSolo
    /\ UNCHANGED <<users, orgs, members, nextOrgID, kv, stored, trail>>

(* lines 131-133: the invitation is deleted and the call returns true.     *)
AcceptDel(p) ==
    /\ proc[p].pc = "acc_del"
    /\ LET k == InviteKey(proc[p].org, proc[p].email) IN
       /\ kv' = KvDel(k)
       /\ trail' = [trail EXCEPT ![k] =
                      [NoTrail EXCEPT !.st = "consumed",
                                      !.code = The(proc[p].invite).code]]
       /\ proc' = [q \in Procs |->
                     IF q = p THEN Idle
                     ELSE IF HoldsCopy(q, k) /\ proc[q].age = proc[p].age
                     THEN [proc[q] EXCEPT !.beaten = TRUE]
                     ELSE proc[q]]
    /\ last' = [Return(proc[p], {"kvdel"}) EXCEPT !.again = proc[p].beaten]
    /\ solo' = IF InSolo(p, "accepting") THEN [solo EXCEPT !.st = "accepted"]
               ELSE IF InSolo(p, "retrying") THEN [solo EXCEPT !.st = "retried"]
               ELSE NoSolo
    /\ UNCHANGED <<users, orgs, members, nextOrgID, stored>>

(* The key's time to live (keys.CODE_EXPIRY seconds) runs out.             *)
Expire(k) ==
    /\ IsSome(kv[k])
    /\ kv' = [kv EXCEPT ![k] = None]
    /\ trail' = [trail EXCEPT ![k] =
                   [NoTrail EXCEPT !.st = "expired", !.code = The(kv[k]).json.code]]
    /\ solo' = NoSolo
    /\ last' = NoLast
    /\ UNCHANGED <<users, orgs, members, nextOrgID, proc, stored>>

(* --------------------------- leaveOrganization ------------------------- *)
IsSoleAdminNever(admins) == FALSE

(* line 228: the caller is the only admin the query returned.              *)
IsSoleAdmin(admins) == Cardinality(admins) = 1

(* lines 218-224: the call starts and looks its membership up.             *)
LeaveStart(p, userID, organizationID) ==
    /\ Free(p)
    /\ LET call == [Idle EXCEPT !.op = "leaveOrganization", !.org = organizationID]
       IN
       IF MatchingMembers(userID, organizationID) = {}
       THEN /\ proc' = [proc EXCEPT ![p] = Idle]
            /\ last' = Throw(call, "you are not part of this organization")
       ELSE /\ \E user \in MatchingMembers(userID, organizationID) :
                  proc' = [proc EXCEPT ![p] =
                             [call EXCEPT !.row = Some(user),
                                          !.pc = IF user.isAdmin THEN "lv_admins"
                                                                 ELSE "lv_delete"]]
            /\ last' = NoLast
    /\ solo' = NoSolo
    /\ UNCHANGED <<users, orgs, members, nextOrgID, kv, stored, trail>>

(* lines 226-230: an admin may leave only if it is not the sole admin.     *)
LeaveAdmins(p) ==
    /\ proc[p].pc = "lv_admins"
    /\ LET admins == FindAdmins(proc[p].org)
           call == [proc[p] EXCEPT !.admins =
                      Cardinality({m \in members : /\ m.isAdmin
                                                   /\ m.organizationID = proc[p].org})]
       IN
       IF IsSoleAdmin(admins)
       THEN /\ proc' = [proc EXCEPT ![p] = Idle]
            /\ last' = Throw(call, "admin cannot leave organization")
       ELSE /\ proc' = [proc EXCEPT ![p] = [call EXCEPT !.pc = "lv_delete"]]
            /\ last' = NoLast
    /\ solo' = NoSolo
    /\ UNCHANGED <<users, orgs, members, nextOrgID, kv, stored, trail>>

(* lines 234-236: the membership row read at the start is deleted by id    *)
(* (its role labels go with it); the store throws if the row is gone.      *)
LeaveDelete(p) ==
    /\ proc[p].pc = "lv_delete"
    /\ LET call == [proc[p] EXCEPT !.pre =
                      IF \E m \in members : m.id = The(proc[p].row).id
                      THEN "" ELSE "gone"]
       IN
       IF The(proc[p].row).id \in MemberIDs
       THEN /\ members' = {m \in members : m.id # The(proc[p].row).id}
            /\ last' = Return(call, {"memberdel"})
       ELSE /\ last' = Throw(call, "record not found")
            /\ UNCHANGED members
    /\ proc' = [proc EXCEPT ![p] = Idle]
    /\ solo' = NoSolo
    /\ UNCHANGED <<users, orgs, nextOrgID, kv, stored, trail>>

(* --------------------------- createOrganization ------------------------ *)
IdentifierNameOnly(name, suffix) == <<name>>

(* line 157: name, "-", six random bytes in hex.                           *)
Identifier(name, suffix) == <<name, "-", suffix>>

(* lines 155-177: one nested create: the organization and the admin        *)
(* membership of adminID, or nothing if adminID is no user.                *)
CreateOrganization(p, adminID, name, suffix) ==
    /\ Free(p)
    /\ nextOrgID <= MaxOrgs
    /\ LET call == [Idle EXCEPT !.op = "createOrganization"] IN
       IF ~\E u \in users : u.id = adminID
       THEN /\ last' = Throw(call, "record not found")
            /\ UNCHANGED <<orgs, members, nextOrgID>>
       ELSE /\ orgs' = orgs \cup {[id |-> nextOrgID, name |-> name,
                                   identifier |-> Identifier(name, suffix)]}
            /\ members' = members \cup {NewMember(adminID, nextOrgID, TRUE, <<>>)}
            /\ nextOrgID' = nextOrgID + 1
            /\ last' = Return(call, {"org", "member"})
    /\ solo' = NoSolo
    /\ UNCHANGED <<users, kv, proc, stored, trail>>

(* -------------------------------- addUser ------------------------------ *)
(* lines 22-50: one nested create: a new user and its non-admin            *)
(* membership with the given roles; the store rejects a missing            *)
(* organization and a taken email.  The password is stored as given.       *)
AddUser(p, email, name, password, organizationID, roles) ==
    /\ Free(p)
    /\ LET call == [Idle EXCEPT !.op = "addUser"]
           user == [id |-> Cardinality(users) + 1, email |-> email,
                    password |-> password, firstname |-> name]
       IN
       IF EmailTaken(email)
       THEN /\ last' = Throw(call, "unique constraint failed")
            /\ UNCHANGED <<users, members>>
       ELSE IF IsNone(FindOrganization(organizationID))
       THEN /\ last' = Throw(call, "record not found")
            /\ UNCHANGED <<users, members>>
       ELSE /\ users' = users \cup {user}
            /\ members' = members \cup
                  {NewMember(user.id, organizationID, FALSE, roles)}
            /\ last' = Return(call, {"user", "member"})
    /\ solo' = NoSolo
    /\ UNCHANGED <<orgs, nextOrgID, kv, proc, stored, trail>>

(* ------------------------- assignRole, deleteRole ---------------------- *)
(* The scalar fields of an OrganizationUser row, as a query without        *)
(* include returns it.                                                     *)
Scalars(m) ==
    [id |-> m.id, userID |-> m.userID, organizationID |-> m.organizationID,
     isAdmin |-> m.isAdmin]

RolesInFlight == Cardinality({q \in Procs : proc[q].op = "assignRole"})

(* lines 181-185: the call starts and looks the membership up.             *)
AssignStart(p, userID, organizationID, roleName) ==
    /\ Free(p)
    /\ \A m \in members : Len(m.roles) + RolesInFlight < MaxRoles
    /\ LET call == [Idle EXCEPT !.op = "assignRole", !.org = organizationID,
                                !.roleName = roleName]
       IN
       IF MatchingMembers(userID, organizationID) = {}
       THEN /\ proc' = [proc EXCEPT ![p] = Idle]
            /\ last' = Throw(call, "user not present in organization")
       ELSE /\ \E user \in MatchingMembers(userID, organizationID) :
                  proc' = [proc EXCEPT ![p] =
                             [call EXCEPT !.row = Some(Scalars(user)),
                                          !.pc = "as_create"]]
            /\ last' = NoLast
    /\ solo' = NoSolo
    /\ UNCHANGED <<users, orgs, members, nextOrgID, kv, stored, trail>>

(* lines 187-194: one role label is created under the membership read;     *)
(* the store rejects a label for a membership that is gone.                *)
AssignCreate(p) ==
    /\ proc[p].pc = "as_create"
    /\ IF The(proc[p].row).id \notin MemberIDs
       THEN /\ last' = Throw(proc[p], "foreign key constraint failed")
            /\ UNCHANGED members
       ELSE /\ members' =
                 {IF m.id = The(proc[p].row).id
                  THEN [m EXCEPT !.roles = Append(@, proc[p].roleName)]
                  ELSE m : m \in members}
            /\ last' = Return(proc[p], {"role"})
    /\ proc' = [proc EXCEPT ![p] = Idle]
    /\ solo' = NoSolo
    /\ UNCHANGED <<users, orgs, nextOrgID, kv, stored, trail>>

(* lines 200-204: the call starts and looks the membership up.             *)
DeleteRoleStart(p, userID, organizationID, roleName) ==
    /\ Free(p)
    /\ LET call == [Idle EXCEPT !.op = "deleteRole", !.org = organizationID,
                                !.roleName = roleName]
       IN
       IF MatchingMembers(userID, organizationID) = {}
       THEN /\ proc' = [proc EXCEPT ![p] = Idle]
            /\ last' = Throw(call, "user not present in organization")
       ELSE /\ \E user \in MatchingMembers(userID, organizationID) :
                  proc' = [proc EXCEPT ![p] =
                             [call EXCEPT !.row = Some(Scalars(user)),
                                          !.pc = "dr_delete"]]
            /\ last' = NoLast
    /\ solo' = NoSolo
    /\ UNCHANGED <<users, orgs, members, nextOrgID, kv, stored, trail>>

RemoveFirst(roles, roleName) ==
    IF \E i \in 1..Len(roles) : roles[i] = roleName
    THEN LET i == CHOOSE j \in 1..Len(roles) :
                     /\ roles[j] = roleName
                     /\ \A h \in 1..(j - 1) : roles[h] # roleName
         IN SubSeq(roles, 1, i - 1) \o SubSeq(roles, i + 1, Len(roles))
    ELSE roles

(* role.deleteMany({ where: { name, organizationUserID } }) on the labels   *)
(* of one membership: every label of that name goes.                       *)
RemoveAll(roles, roleName) == SelectSeq(roles, LAMBDA r : r # roleName)

(* lines 206-213: the labels are deleted in bulk and the call returns      *)
(* true, whatever the number deleted.                                      *)
DeleteRoleMany(p) ==
    /\ proc[p].pc = "dr_delete"
    /\ LET id == The(proc[p].row).id
           was == {m \in members : m.id = id}
       IN
       /\ members' =
            {IF m.id = id THEN [m EXCEPT !.roles = RemoveAll(@, proc[p].roleName)]
             ELSE m : m \in members}
       /\ last' = [Return(proc[p], {}) EXCEPT
                     !.removed =
                        IF was = {} THEN 0
                        ELSE LET m == CHOOSE x \in was : TRUE IN
                             Cardinality({i \in 1..Len(m.roles) :
                                            m.roles[i] = proc[p].roleName})]
    /\ proc' = [proc EXCEPT ![p] = Idle]
    /\ solo' = NoSolo
    /\ UNCHANGED <<users, orgs, nextOrgID, kv, stored, trail>>

(* ------------------------- fetchOrganizationUsers ---------------------- *)
UserViewWhole(u) == u

(* lines 142-149: include user, select email and profileData.  A User row  *)
(* of the model keeps profileData.firstname as firstname and               *)
(* authData.password as password.                                          *)
UserView(u) == [email |-> u.email, profileData |-> [firstname |-> u.firstname]]

(* lines 138-150: the memberships of the organization, each with the view  *)
(* of its user.                                                            *)
FetchResult(organizationID) ==
    {[row |-> Scalars(m),
      user |-> UserView(CHOOSE u \in users : u.id = m.userID)] :
        m \in {x \in members : x.organizationID = organizationID}}

(* lines 136-153: one query; nothing is written.                           *)
FetchOrganizationUsers(p, organizationID) ==
    /\ Free(p)
    /\ LET call == [Idle EXCEPT !.op = "fetchOrganizationUsers"] IN
       last' = [Return(call, {}) EXCEPT !.org = organizationID,
                                        !.result = FetchResult(organizationID)]
    /\ solo' = NoSolo
    /\ UNCHANGED <<users, orgs, members, nextOrgID, kv, proc, stored, trail>>

(* --------------------------- deleteOrganization ------------------------ *)
CascadeNothing(organizationID) == members

(* The store's cascade: deleting an organization deletes its memberships   *)
(* and, with them, their role labels.                                      *)
CascadeDelete(organizationID) ==
    {m \in members : m.organizationID # organizationID}

(* lines 239-255: the organization is deleted; the store throws if there   *)
(* is none with that id.                                                   *)
DeleteOrganization(p, organizationID) ==
    /\ Free(p)
    /\ LET call == [Idle EXCEPT !.op = "deleteOrganization"] IN
       IF IsNone(FindOrganization(organizationID))
       THEN /\ last' = Throw(call, "record not found")
            /\ UNCHANGED <<orgs, members>>
       ELSE /\ orgs' = {o \in orgs : o.id # organizationID}
            /\ members' = CascadeDelete(organizationID)
            /\ last' = Return(call, {"orgdel"})
    /\ solo' = NoSolo
    /\ UNCHANGED <<users, nextOrgID, kv, proc, stored, trail>>

(* ----------------------------- specification --------------------------- *)
Next ==
    \/ \E p \in Procs, email \in Emails, name \in Names, o \in OrgIDs,
          roles \in RoleLists : InviteStart(p, email, name, o, roles)
    \/ \E p \in Procs : InviteFindOrg(p)
    \/ \E p \in Procs : InviteFindMember(p)
    \/ \E p \in Procs, code \in CodeSample : InviteSend(p, code)
    \/ \E p \in Procs : InviteSendFails(p)
    \/ \E p \in Procs : InviteSet(p)
    \/ \E p \in Procs, email \in Emails, o \in OrgIDs, code \in CodeInputs,
          password \in PasswordInputs : AcceptGet(p, email, o, code, password)
    \/ \E p \in Procs : AcceptFindUser(p)
    \/ \E p \in Procs : AcceptCreateUser(p)
    \/ \E p \in Procs : AcceptCreateMember(p)
    \/ \E p \in Procs : AcceptCreateMemberFails(p)
    \/ \E p \in Procs : AcceptDel(p)
    \/ \E k \in Keys : Expire(k)
    \/ \E p \in Procs, u \in UserIDs, o \in OrgIDs : LeaveStart(p, u, o)
    \/ \E p \in Procs : LeaveAdmins(p)
    \/ \E p \in Procs : LeaveDelete(p)
    \/ \E p \in Procs, u \in AdminIDs, name \in OrgNames, suffix \in HexSuffixes :
          CreateOrganization(p, u, name, suffix)
    \/ \E p \in Procs, email \in Emails, name \in Names, password \in Passwords,
          o \in OrgIDs, roles \in RoleLists : AddUser(p, email, name, password, o, roles)
    \/ \E p \in Procs, o \in OrgIDs : DeleteOrganization(p, o)

Spec == Init /\ [][Next]_vars

(* inviteUser alone, its codes drawn from the wide sample.                 *)
NextCodes ==
    \/ \E p \in Procs, email \in Emails, name \in Names, o \in OrgIDs,
          roles \in RoleLists : InviteStart(p, email, name, o, roles)
    \/ \E p \in Procs : InviteFindOrg(p)
    \/ \E p \in Procs : InviteFindMember(p)
    \/ \E p \in Procs, code \in WideCodeSample : InviteSend(p, code)
    \/ \E p \in Procs : InviteSendFails(p)
    \/ \E p \in Procs : InviteSet(p)
    \/ \E k \in Keys : Expire(k)

SpecCodes == Init /\ [][NextCodes]_vars

(* The invitation handshake alone (inviteUser, acceptInvitation, expiry,   *)
(* and createOrganization to have an organization a user is no member of), *)
(* with invitations that differ in code, name and roles.                   *)
NextInvite ==
    \/ \E p \in Procs, email \in Emails, name \in NamePair, o \in OrgIDs,
          roles \in RoleListPair : InviteStart(p, email, name, o, roles)
    \/ \E p \in Procs : InviteFindOrg(p)
    \/ \E p \in Procs : InviteFindMember(p)
    \/ \E p \in Procs, code \in CodePair : InviteSend(p, code)
    \/ \E p \in Procs : InviteSendFails(p)
    \/ \E p \in Procs : InviteSet(p)
    \/ \E p \in Procs, email \in Emails, o \in OrgIDs, code \in CodePair,
          password \in PasswordInputs : AcceptGet(p, email, o, code, password)
    \/ \E p \in Procs : AcceptFindUser(p)
    \/ \E p \in Procs : AcceptCreateUser(p)
    \/ \E p \in Procs : AcceptCreateMember(p)
    \/ \E p \in Procs : AcceptCreateMemberFails(p)
    \/ \E p \in Procs : AcceptDel(p)
    \/ \E k \in Keys : Expire(k)
    \/ \E p \in Procs, u \in AdminIDs, name \in OrgNames, suffix \in HexSuffixes :
          CreateOrganization(p, u, name, suffix)

SpecInvite == Init /\ [][NextInvite]_vars

(* Role labels and the listing of memberships, over the memberships that  *)
(* createOrganization makes and deleteOrganization removes.                *)
NextRoles ==
    \/ \E p \in Procs, u \in UserIDs, o \in OrgIDs, r \in RoleNames :
          AssignStart(p, u, o, r)
    \/ \E p \in Procs : AssignCreate(p)
    \/ \E p \in Procs, u \in UserIDs, o \in OrgIDs, r \in RoleNames :
          DeleteRoleStart(p, u, o, r)
    \/ \E p \in Procs : DeleteRoleMany(p)
    \/ \E p \in Procs, o \in OrgIDs : FetchOrganizationUsers(p, o)
    \/ \E p \in Procs, u \in AdminIDs, name \in OrgNames, suffix \in HexSuffixes :
          CreateOrganization(p, u, name, suffix)
    \/ \E p \in Procs, o \in OrgIDs : DeleteOrganization(p, o)

SpecRoles == Init /\ [][NextRoles]_vars

(* -------------------------------- claims ------------------------------- *)
AcceptReturned == last.op = "acceptInvitation" /\ last.pc \in {"done", "failed"}
UnableToVerify == last.pc = "failed" /\ last.err = "unable to verify code"

(* C1: when inviteUser has succeeded and nothing else has taken a step, an *)
(* acceptInvitation with the issued code (and a password, for a new user)  *)
(* does not fail and returns true; an acceptInvitation with the same       *)
(* email, organization and code that starts after a successful one has     *)
(* returned, no invitation having been stored under the key in between,    *)
(* fails with "unable to verify code".                                     *)
C1_SequentialSingleUse ==
    /\ solo.st = "accepting" => last.pc # "failed"
    /\ solo.st = "accepted" => AcceptReturned /\ last.pc = "done"
    /\ solo.st = "replayed" => AcceptReturned /\ UnableToVerify
    /\ (AcceptReturned /\ last.seen.st = "consumed" /\ last.seen.match)
          => UnableToVerify

(* The whole sequence ran: invite, accept, and the repeated accept failed. *)
C1_Witness == solo.st = "replayed" /\ UnableToVerify

(* C2: no acceptInvitation succeeds on a stored invitation on which an     *)
(* earlier acceptInvitation has already succeeded.                         *)
C2_ConsumedAtMostOnce ==
    ~(AcceptReturned /\ last.pc = "done" /\ last.again)

(* C3: acceptInvitation with a code that differs from the code stored      *)
(* under the key fails with "unable to verify code" and has created no     *)
(* user, no membership, and neither written nor deleted the invitation.    *)
C3_WrongCodeMutatesNothing ==
    (AcceptReturned /\ last.seen.st = "pending" /\ ~last.seen.match)
       => UnableToVerify /\ last.eff = {}

C3_Witness ==
    /\ AcceptReturned /\ last.seen.st = "pending" /\ ~last.seen.match
    /\ UnableToVerify
    /\ \E k \in Keys : IsSome(kv[k])

(* C4: acceptInvitation that finds no invitation under the key (it has     *)
(* expired, was consumed, or was never stored) fails with "unable to       *)
(* verify code", as for a wrong code, and creates no user and no           *)
(* membership.                                                             *)
C4_ExpiredInvitationRejected ==
    (AcceptReturned /\ last.seen.st # "pending")
       => UnableToVerify /\ last.eff = {}

(* The invitation expired and the code presented is the one issued.        *)
C4_Witness ==
    AcceptReturned /\ last.seen.st = "expired" /\ last.seen.match /\ UnableToVerify

(* C5: every organization that has a non-admin membership has an admin    *)
(* membership.                                                             *)
C5_AdminWhileMembers ==
    \A o \in orgs :
        (\E m \in members : m.organizationID = o.id /\ ~m.isAdmin)
           => (\E m \in members : m.organizationID = o.id /\ m.isAdmin)

(* C6: there is at most one membership per (userID, organizationID).       *)
C6_OneMembershipPerPair ==
    \A m1, m2 \in members :
        (m1.userID = m2.userID /\ m1.organizationID = m2.organizationID)
           => m1.id = m2.id

InviteReturned == last.op = "inviteUser" /\ last.pc \in {"done", "failed"}

(* C7: inviteUser that finds no organization fails with "no organization   *)
(* exists", and one that finds the user already a member fails with        *)
(* "already part of organization"; a call that failed with either has sent *)
(* no email and written no invitation.                                     *)
C7_InviteFailsWithoutEffect ==
    InviteReturned =>
        /\ last.pre = "no organization"
              => last.pc = "failed" /\ last.err = "no organization exists"
        /\ last.pre = "member"
              => last.pc = "failed" /\ last.err = "already part of organization"
        /\ (last.pc = "failed"
            /\ last.err \in {"no organization exists", "already part of organization"})
              => last.eff = {}

(* A member was invited while an invitation was pending: the call failed   *)
(* and the pending invitation is still there.                              *)
C7_Witness ==
    /\ InviteReturned /\ last.pre = "member" /\ last.pc = "failed"
    /\ \E k \in Keys : IsSome(kv[k])

LeaveReturned == last.op = "leaveOrganization" /\ last.pc \in {"done", "failed"}

(* C8: leaveOrganization of an admin that counted exactly one admin fails  *)
(* with "admin cannot leave organization" and deletes nothing; one that    *)
(* counted two or more, its membership being there when it comes to delete *)
(* it, deletes that membership and returns true.                           *)
C8_SoleAdminCannotLeave ==
    LeaveReturned =>
        /\ last.admins = 1
              => /\ last.pc = "failed"
                 /\ last.err = "admin cannot leave organization"
                 /\ last.eff = {}
        /\ (last.admins >= 2 /\ last.pre # "gone")
              => /\ last.pc = "done"
                 /\ last.eff = {"memberdel"}
                 /\ last.rowid \notin MemberIDs

(* One of two admins has left.                                             *)
C8_Witness ==
    /\ LeaveReturned /\ last.admins = 2 /\ last.pc = "done"
    /\ \E o \in orgs : Cardinality(FindAdmins(o.id)) = 1

(* C9: every membership references exactly one existing organization and   *)
(* exactly one existing user.                                              *)
C9_MembershipsReferenceExisting ==
    \A m \in members :
        /\ Cardinality({u \in users : u.id = m.userID}) = 1
        /\ Cardinality({o \in orgs : o.id = m.organizationID}) = 1

(* An invitation was accepted after its organization had been deleted: the *)
(* store refused the membership.                                           *)
C9_Witness ==
    /\ AcceptReturned /\ last.err = "foreign key constraint failed"
    /\ orgs = {} /\ members = {}

(* The codes in flight: generated and about to be stored, or stored.       *)
IssuedCodes ==
    {proc[p].code : p \in {q \in Procs : proc[q].pc = "inv_set"}}
    \cup {The(kv[k]).json.code : k \in {j \in Keys : IsSome(kv[j])}}

(* C10 as claimed: every invitation code is six decimal digits.            *)
C10_CodeIsSixDigits ==
    \A c \in IssuedCodes : Len(c) = 6 /\ \A i \in 1..Len(c) : c[i] \in Digits

(* C10 as amended: every invitation code is six characters, each a decimal *)
(* digit or an upper-case letter.                                          *)
C10_CodeIsSixDigitsOrUpperCase ==
    \A c \in IssuedCodes :
        Len(c) = 6 /\ \A i \in 1..Len(c) : c[i] \in Digits \cup UpperCaseAlphabets

(* A code with a letter in it is stored.                                   *)
C10_Witness ==
    \E k \in Keys :
        /\ IsSome(kv[k])
        /\ \E i \in 1..6 : The(kv[k]).json.code[i] \in UpperCaseAlphabets

(* C11: a key holds at most one invitation, the one the latest inviteUser  *)
(* stored; once an inviteUser has replaced a pending invitation that had a *)
(* different code, an acceptInvitation presenting the replaced code fails  *)
(* with "unable to verify code" and writes nothing, and an                 *)
(* acceptInvitation presenting the new code, nothing else taking a step,   *)
(* returns true having created the membership with the roles of the second *)
(* inviteUser call and, for a new user, the user with its name.            *)
C11_SecondInviteReplaces ==
    /\ \A k \in Keys :
          IsSome(kv[k]) =>
             /\ trail[k].st = "pending"
             /\ The(kv[k]).json.code = trail[k].code
             /\ The(kv[k]).json.name = trail[k].name
             /\ The(kv[k]).json.roles = trail[k].roles
    /\ (AcceptReturned /\ last.seen.st = "pending" /\ last.seen.old)
          => UnableToVerify /\ last.eff = {}
    /\ \A p \in Procs :
          (InSolo(p, "accepting") /\ proc[p].seen.repl) => last.pc # "failed"
    /\ (solo.st = "accepted" /\ last.seen.repl)
          => /\ AcceptReturned /\ last.pc = "done"
             /\ "member" \in last.eff
             /\ last.made.roles = last.seen.roles
             /\ "user" \in last.eff => last.made.name = last.seen.name

(* The replaced code was refused while the second invitation was pending,  *)
(* the second invitation naming other roles than the one it replaced.      *)
C11_Witness ==
    /\ AcceptReturned /\ last.seen.st = "pending" /\ last.seen.old /\ UnableToVerify
    /\ last.seen.roles = <<"ops", "dev">>

(* C12: a createOrganization(adminID, name) step, adminID being the id of  *)
(* an existing user, adds exactly one organization, named name and with    *)
(* identifier name, "-", a random suffix, and exactly one membership, of    *)
(* adminID in that organization with isAdmin true, removes nothing and     *)
(* returns true; adminID being no user's id, it fails and leaves           *)
(* organizations and memberships as they were.                             *)
C12_CreateOrganizationCreatesOne ==
    [][\A p \in Procs, adminID \in AdminIDs, name \in OrgNames,
         suffix \in HexSuffixes :
          CreateOrganization(p, adminID, name, suffix) =>
             IF \E u \in users : u.id = adminID
             THEN /\ orgs \subseteq orgs' /\ members \subseteq members'
                  /\ Cardinality(orgs' \ orgs) = 1
                  /\ Cardinality(members' \ members) = 1
                  /\ \A o \in orgs' \ orgs, m \in members' \ members :
                        /\ o.id \notin {x.id : x \in orgs}
                        /\ o.name = name
                        /\ Len(o.identifier) = 3
                        /\ o.identifier[1] = name /\ o.identifier[2] = "-"
                        /\ o.identifier[3] \in HexSuffixes
                        /\ m.id \notin {x.id : x \in members}
                        /\ m.userID = adminID /\ m.organizationID = o.id
                        /\ m.isAdmin
                  /\ users' = users
                  /\ last'.pc = "done"
             ELSE /\ orgs' = orgs /\ members' = members /\ users' = users
                  /\ last'.pc = "failed"]_vars

(* An organization has just been created for user 1: it is the only       *)
(* organization and its admin membership the only membership.              *)
C12_Witness ==
    /\ last.op = "createOrganization" /\ last.pc = "done"
    /\ \E o \in orgs : o.identifier = <<"Acme", "-", "0a1b2c3d4e5f">>
    /\ \E m \in members : m.userID = 1 /\ m.isAdmin /\ Cardinality(members) = 1
    /\ Cardinality(orgs) = 1

(* C13: the step on which deleteRole(userID, org, r) returns leaves the    *)
(* membership it looked up without a label named r, however many were      *)
(* assigned, keeps that membership's labels of other names as they were,   *)
(* in order, and changes no other membership; the call returns true.       *)
C13_DeleteRoleRemovesAll ==
    [][\A p \in Procs :
          (proc[p].pc = "dr_delete" /\ proc'[p].pc = "idle") =>
             LET id == The(proc[p].row).id
                 r == proc[p].roleName
             IN
             /\ last'.op = "deleteRole" /\ last'.pc = "done"
             /\ {m.id : m \in members'} = {m.id : m \in members}
             /\ \A m \in members, n \in members' :
                   m.id = n.id =>
                      /\ Scalars(n) = Scalars(m)
                      /\ m.id # id => n.roles = m.roles
                      /\ m.id = id =>
                            /\ \A i \in 1..Len(n.roles) : n.roles[i] # r
                            /\ \A other \in RoleNames \ {r} :
                                  SelectSeq(n.roles, LAMBDA x : x = other)
                                     = SelectSeq(m.roles, LAMBDA x : x = other)
                            /\ Len(n.roles) = Len(m.roles) - last'.removed]_vars

(* A label assigned twice has just been deleted, both copies at once, from *)
(* a membership that keeps a label of another name.                        *)
C13_Witness ==
    /\ last.op = "deleteRole" /\ last.pc = "done" /\ last.removed = 2
    /\ \E m \in members : m.id = last.rowid /\ Len(m.roles) = 1

(* C14: the step on which acceptInvitation fails at the creation of the    *)
(* membership deletes nothing from the key-value store, and the call has   *)
(* not deleted its key; if no other call has stored under the key since    *)
(* the call read it and the invitation has neither been consumed by        *)
(* another call nor expired, the key still holds the invitation the call   *)
(* read: same code, name and roles.                                        *)
C14_FailedCreateKeepsInvitation ==
    [][\A p \in Procs :
          (proc[p].pc = "acc_createMember" /\ proc'[p].pc = "idle") =>
             LET k == InviteKey(proc[p].org, proc[p].email) IN
             /\ last'.op = "acceptInvitation" /\ last'.pc = "failed"
             /\ "kvdel" \notin last'.eff
             /\ kv' = kv
             /\ (trail[k].st = "pending" /\ proc[p].age = 0)
                   => /\ IsSome(kv'[k])
                      /\ JSONparse(kv'[k]) = proc[p].invite]_vars

(* The membership creation of an accept that nothing interleaved has just  *)
(* failed, and the invitation is still stored with its code.               *)
C14_Witness ==
    /\ solo.st = "transient"
    /\ AcceptReturned /\ last.err = "store error"
    /\ IsSome(kv[solo.k]) /\ The(kv[solo.k]).json.code = solo.code

(* C15: inviteUser returns true only on the step that stores the           *)
(* invitation; at that step the email has already been sent, and the code  *)
(* stored under (organizationID, email) is the code the email carried; the *)
(* step on which sending fails stores nothing and the call fails having    *)
(* neither sent nor stored.                                                *)
C15_ReturnsAfterSendAndStore ==
    [][/\ (last'.op = "inviteUser" /\ last'.pc = "done")
            => \E p \in Procs : proc[p].pc = "inv_set" /\ proc'[p].pc = "idle"
       /\ \A p \in Procs :
            /\ (proc[p].pc = "inv_set" /\ proc'[p].pc = "idle") =>
                  LET k == InviteKey(proc[p].org, proc[p].email) IN
                  /\ "email" \in proc[p].eff /\ "kvset" \notin proc[p].eff
                  /\ last'.op = "inviteUser" /\ last'.pc = "done"
                  /\ last'.eff = {"email", "kvset"}
                  /\ IsSome(kv'[k])
                  /\ The(kv'[k]).json.code = proc[p].mailed
                  /\ proc[p].mailed # <<>>
            /\ (proc[p].pc = "inv_send" /\ proc'[p].pc = "idle") =>
                  /\ last'.op = "inviteUser" /\ last'.pc = "failed"
                  /\ last'.eff = {}
                  /\ kv' = kv]_vars

(* An inviteUser has just returned true and another inviteUser has sent    *)
(* its email and not yet stored.                                           *)
C15_Witness ==
    /\ InviteReturned /\ last.pc = "done" /\ last.eff = {"email", "kvset"}
    /\ \E k \in Keys : IsSome(kv[k])
    /\ \E p \in Procs : proc[p].pc = "inv_set" /\ proc[p].mailed # <<>>

(* C16: fetchOrganizationUsers(org) writes nothing and returns one entry   *)
(* for each membership of org and no other entry; an entry's user has the  *)
(* fields email and profileData only, they are that user's email and       *)
(* profile, and no other field of the User row (its password) is there.    *)
C16_FetchProjectsNoCredentials ==
    (last.op = "fetchOrganizationUsers") =>
       /\ last.pc = "done" /\ last.eff = {}
       /\ {e.row.id : e \in last.result}
             = {m.id : m \in {x \in members : x.organizationID = last.org}}
       /\ Cardinality(last.result)
             = Cardinality({m \in members : m.organizationID = last.org})
       /\ \A e \in last.result :
             /\ \E m \in members : Scalars(m) = e.row /\ m.organizationID = last.org
             /\ DOMAIN e.user = {"email", "profileData"}
             /\ \E u \in users :
                   /\ u.id = e.row.userID
                   /\ e.user.email = u.email
                   /\ e.user.profileData = [firstname |-> u.firstname]
                   /\ DOMAIN e.user \cap (DOMAIN u \ {"email"}) = {}

(* A listing of two memberships has just been returned.                    *)
C16_Witness ==
    /\ last.op = "fetchOrganizationUsers" /\ last.pc = "done"
    /\ Cardinality(last.result) = 2

(* C17: an acceptInvitation that returns true has created a membership     *)
(* that is not admin, whose user is the one with the email the call was    *)
(* given, and whose role labels are, one for one and in order, the roles   *)
(* passed to the inviteUser call that stored the invitation the call read. *)
C17_AcceptedMembershipAsInvited ==
    (AcceptReturned /\ last.pc = "done") =>
       /\ last.seen.st = "pending"
       /\ "member" \in last.eff
       /\ ~last.made.isAdmin
       /\ last.made.email = last.email
       /\ last.made.roles = last.seen.roles

(* An invitation with two roles has been accepted by a new user, whose     *)
(* membership carries the two.                                             *)
C17_Witness ==
    /\ AcceptReturned /\ last.pc = "done" /\ "user" \in last.eff
    /\ last.made.roles = <<"ops", "dev">>
    /\ \E m \in members, u \in users :
          /\ m.userID = u.id /\ u.email = last.email
          /\ m.roles = <<"ops", "dev">> /\ ~m.isAdmin

(* C18: while an invitation stored with newuser = false is pending, and    *)
(* while a caller holds one it has read, a user with the invitation's      *)
(* email exists; the lookup by email in the existing-user branch of        *)
(* acceptInvitation has found a user, and no acceptInvitation fails on a   *)
(* null user.                                                              *)
C18_ExistingUserStillExists ==
    /\ \A k \in Keys :
          (IsSome(kv[k]) /\ ~The(kv[k]).json.newuser)
             => \E u \in users : u.email = k[2]
    /\ \A p \in Procs :
          (/\ proc[p].op = "acceptInvitation"
           /\ IsSome(proc[p].invite) /\ ~The(proc[p].invite).newuser)
             => /\ \E u \in users : u.email = proc[p].email
                /\ proc[p].pc = "acc_createMember"
                      => /\ IsSome(proc[p].user)
                         /\ The(proc[p].user).email = proc[p].email
    /\ AcceptReturned => last.err # "TypeError"

(* An invitation for an existing user is pending and a caller accepting it *)
(* has looked the user up.                                                 *)
C18_Witness ==
    \E p \in Procs :
       /\ proc[p].pc = "acc_createMember"
       /\ ~The(proc[p].invite).newuser
       /\ IsSome(proc[p].user)
       /\ IsSome(kv[InviteKey(proc[p].org, proc[p].email)])

(* C19: an acceptInvitation that fails has created no user and no          *)
(* membership (and with it no role label).                                 *)
C19_FailedAcceptWritesNothing ==
    (AcceptReturned /\ last.pc = "failed")
       => ("user" \notin last.eff /\ "member" \notin last.eff)

(* C20: when an acceptInvitation that followed its inviteUser with nothing *)
(* interleaved has failed at the membership creation on a store error, the *)
(* same acceptInvitation made again, still with nothing interleaved, does  *)
(* not fail, and returns true having created the membership.               *)
C20_RetrySucceeds ==
    /\ solo.st = "retrying" => last.pc # "failed"
    /\ solo.st = "retried"
          => AcceptReturned /\ last.pc = "done" /\ "member" \in last.eff

====
